---- MODULE Spec2Model ----
(***************************************************************************)
(* A model of src/models.py: the three network definitions VGG, BCNN and   *)
(* LeNet5.  A network is modelled by its structure: the ordered list of    *)
(* registered sub-modules, each layer carrying its hyper-parameters and a  *)
(* tag naming how its weight and bias tensors were last filled.  A tensor  *)
(* is modelled by its shape; every library operation either maps a shape   *)
(* to a shape or raises, as the framework does on a mismatch.              *)
(***************************************************************************)
EXTENDS Integers, Sequences, FiniteSets, TLC

VARIABLES
    pc,      \* position of the running call
    cls,     \* class being constructed / used: "none", "VGG", "BCNN", "LeNet5"
    args,    \* constructor arguments
    attr,    \* scalar instance attributes (self.in_channels, self.out_channel, ...)
    loc,     \* constructor locals (num_classes, feature_channels, in_channels)
    mods,    \* registered sub-modules, in registration order
    call,    \* the latest make_layers call: cfg, batch_norm, caller, and the
             \* input-channel count it found on entry
    layers,  \* the local list `layers` of make_layers
    i,       \* index of the next config token in make_layers
    inp,     \* shape of the batch handed to forward
    x,       \* shape of the tensor flowing through forward
    err      \* the exception that ended the call, "" if none

vars == <<pc, cls, args, attr, loc, mods, call, layers, i, inp, x, err>>

-----------------------------------------------------------------------------
(* Bounds of the model *)

MaxCfgLen == 3
MaxBatch == 2

-----------------------------------------------------------------------------
(* Values *)

\* An optional value: <<>> is "not bound", <<v>> is "bound to v".
Unset == <<>>
Some(v) == <<v>>
IsSet(o) == Len(o) = 1
Val(o) == o[1]

\* Config tokens: the marker 'M' or a channel width.
M == [tok |-> "M", w |-> 0]
W(n) == [tok |-> "C", w |-> n]
IsM(v) == v.tok = "M"

Widths == {64, 128}
Tokens == {M} \cup {W(n) : n \in Widths}
Cfgs == UNION {[1..n -> Tokens] : n \in 0..MaxCfgLen}

\* The cfg argument: None or a list.
None == [given |-> FALSE, toks |-> <<>>]
List(s) == [given |-> TRUE, toks |-> s]
CfgArgs == {None} \cup {List(s) : s \in Cfgs}

\* Python truthiness of the cfg argument: None and [] are false.
Truthy(c) == c.given /\ Len(c.toks) > 0

Datasets == {"aoi", "mnist", "None"}
NumClasses == {6, 200}
InChans == {1, 3}
InSizes == {224, 448}

-----------------------------------------------------------------------------
(* Layers *)

Conv2d(inc, outc, k, pad) ==
    [kind |-> "Conv2d", inc |-> inc, outc |-> outc, k |-> k, pad |-> pad,
     stride |-> 1, weight |-> "kaiming_uniform", bias |-> "uniform", inplace |-> FALSE]

BatchNorm2d(c) ==
    [kind |-> "BatchNorm2d", inc |-> c, outc |-> c, k |-> 0, pad |-> 0,
     stride |-> 0, weight |-> "const_1.0", bias |-> "zero", inplace |-> FALSE]

ReLU(inplace) ==
    [kind |-> "ReLU", inc |-> 0, outc |-> 0, k |-> 0, pad |-> 0,
     stride |-> 0, weight |-> "none", bias |-> "none", inplace |-> inplace]

MaxPool2d(k, stride) ==
    [kind |-> "MaxPool2d", inc |-> 0, outc |-> 0, k |-> k, pad |-> 0,
     stride |-> stride, weight |-> "none", bias |-> "none", inplace |-> FALSE]

Linear(inf, outf) ==
    [kind |-> "Linear", inc |-> inf, outc |-> outf, k |-> 0, pad |-> 0,
     stride |-> 0, weight |-> "kaiming_uniform", bias |-> "uniform", inplace |-> FALSE]

HasParams(l) == l.kind \in {"Conv2d", "BatchNorm2d", "Linear"}

\* A layer with the weights of the model zoo loaded into it.
Loaded(l) == IF HasParams(l) THEN [l EXCEPT !.weight = "pretrained", !.bias = "pretrained"] ELSE l

-----------------------------------------------------------------------------
(* Sequence helpers *)

RECURSIVE Concat(_)
Concat(ss) == IF ss = <<>> THEN <<>> ELSE Head(ss) \o Concat(Tail(ss))

\* Python s[:-n] for n >= 1
DropLast(s, n) == IF Len(s) <= n THEN <<>> ELSE SubSeq(s, 1, Len(s) - n)
\* what s[:-n] leaves out
LastN(s, n) == IF Len(s) <= n THEN s ELSE SubSeq(s, Len(s) - n + 1, Len(s))

Entry(name, ls) == [name |-> name, layers |-> ls]

\* setattr on a module: replaces a registered name in place, appends a new one.
SetMod(ms, name, ls) ==
    IF \E e \in DOMAIN ms : ms[e].name = name
    THEN [e \in DOMAIN ms |-> IF ms[e].name = name THEN Entry(name, ls) ELSE ms[e]]
    ELSE Append(ms, Entry(name, ls))

GetMod(ms, name) == ms[CHOOSE e \in DOMAIN ms : ms[e].name = name].layers

\* self.modules(): every registered layer, containers flattened in order.
Modules(ms) == Concat([e \in DOMAIN ms |-> ms[e].layers])

-----------------------------------------------------------------------------
(* Tensor shapes through the library's operations *)

Ok(s) == [ok |-> TRUE, s |-> s, e |-> ""]
Fail(e) == [ok |-> FALSE, s |-> <<>>, e |-> e]

\* Output extent of a sliding window: floor((h + 2*pad - k) / stride) + 1
Window(h, k, pad, stride) == ((h + 2 * pad - k) \div stride) + 1

Numel(s) == IF Len(s) = 0 THEN 1
            ELSE IF Len(s) = 1 THEN s[1]
            ELSE IF Len(s) = 2 THEN s[1] * s[2]
            ELSE IF Len(s) = 3 THEN s[1] * s[2] * s[3]
            ELSE s[1] * s[2] * s[3] * s[4]

\* module(x) for one layer
ApplyLayer(l, s) ==
    CASE l.kind = "Conv2d" ->
            IF Len(s) # 4 \/ s[2] # l.inc THEN Fail("RuntimeError: input channels")
            ELSE IF s[3] + 2 * l.pad < l.k \/ s[4] + 2 * l.pad < l.k
                 THEN Fail("RuntimeError: kernel larger than input")
            ELSE Ok(<<s[1], l.outc, Window(s[3], l.k, l.pad, l.stride),
                      Window(s[4], l.k, l.pad, l.stride)>>)
      [] l.kind = "BatchNorm2d" ->
            IF Len(s) # 4 \/ s[2] # l.inc THEN Fail("RuntimeError: num_features")
            ELSE Ok(s)
      [] l.kind = "ReLU" -> Ok(s)
      [] l.kind = "MaxPool2d" ->
            IF Len(s) # 4 \/ s[3] < l.k \/ s[4] < l.k
            THEN Fail("RuntimeError: output size too small")
            ELSE Ok(<<s[1], s[2], Window(s[3], l.k, 0, l.stride),
                      Window(s[4], l.k, 0, l.stride)>>)
      [] l.kind = "Linear" ->
            IF Len(s) # 2 \/ s[2] # l.inc THEN Fail("RuntimeError: shapes cannot be multiplied")
            ELSE Ok(<<s[1], l.outc>>)

\* nn.Sequential.forward: the layers in order, stopping at the first failure
RECURSIVE ApplySeq(_, _)
ApplySeq(ls, s) ==
    IF ls = <<>> THEN Ok(s)
    ELSE LET r == ApplyLayer(Head(ls), s)
         IN IF r.ok THEN ApplySeq(Tail(ls), r.s) ELSE r

\* nn.AvgPool2d(k)(x): stride defaults to the kernel size
AvgPool2d(k, s) ==
    IF Len(s) # 4 \/ s[3] < k \/ s[4] < k THEN Fail("RuntimeError: output size too small")
    ELSE Ok(<<s[1], s[2], Window(s[3], k, 0, k), Window(s[4], k, 0, k)>>)

\* x.view(x.size(0), -1)
ViewRows(s) == Ok(<<s[1], Numel(s) \div s[1]>>)

\* x.view(-1, width)
ViewCols(s, width) ==
    IF Numel(s) % width # 0 THEN Fail("RuntimeError: shape is invalid for input")
    ELSE Ok(<<Numel(s) \div width, width>>)

\* torch.reshape(x, shape)
Reshape(s, shape) ==
    IF Numel(s) # Numel(shape) THEN Fail("RuntimeError: shape is invalid for input")
    ELSE Ok(shape)

\* torch.bmm(x, x.permute(0, 2, 1)) on x of shape (N, C, S)
BmmWithTranspose(s) == Ok(<<s[1], s[2], s[2]>>)

-----------------------------------------------------------------------------
(* The model zoo: torchvision's vgg16 / vgg16_bn feature extractor *)

ZooCfg == <<W(64), W(64), M, W(128), W(128), M, W(256), W(256), W(256), M,
            W(512), W(512), W(512), M, W(512), W(512), W(512), M>>

RECURSIVE ZooMakeLayers(_, _, _)
ZooMakeLayers(toks, inc, bn) ==
    IF toks = <<>> THEN <<>>
    ELSE LET v == Head(toks)
         IN IF IsM(v) THEN <<MaxPool2d(2, 2)>> \o ZooMakeLayers(Tail(toks), inc, bn)
            ELSE (IF bn THEN <<Conv2d(inc, v.w, 3, 1), BatchNorm2d(v.w), ReLU(TRUE)>>
                        ELSE <<Conv2d(inc, v.w, 3, 1), ReLU(TRUE)>>)
                 \o ZooMakeLayers(Tail(toks), v.w, bn)

ZooFeatures(bn) ==
    LET ls == ZooMakeLayers(ZooCfg, 3, bn)
    IN [k \in DOMAIN ls |-> Loaded(ls[k])]

-----------------------------------------------------------------------------
(* Initial state, call and return *)

NoArgs == [dataset |-> "None", pretrained |-> FALSE, cfg |-> None,
           batch_norm |-> FALSE, num_classes |-> 0]
NoAttr == [in_channels |-> Unset, out_channel |-> Unset, out_size |-> Unset,
           feature_channels |-> Unset]
NoLoc == [num_classes |-> Unset, feature_channels |-> Unset, in_channels |-> Unset]
NoCall == [cfg |-> <<>>, bn |-> FALSE, ret |-> "", start |-> Unset]

Init ==
    /\ pc = "idle"
    /\ cls = "none"
    /\ args = NoArgs
    /\ attr = NoAttr
    /\ loc = NoLoc
    /\ mods = <<>>
    /\ call = NoCall
    /\ layers = <<>>
    /\ i = 0
    /\ inp = <<>>
    /\ x = <<>>
    /\ err = ""

-----------------------------------------------------------------------------
(* make_layers: the stage appended for one channel width, shared by the    *)
(* two copies of the loop body                                             *)

\* Variant: every convolution reads the image's channel count instead of the
\* running count.
VGGConvStage_FixedIn(inc, v, bn) ==
    IF bn THEN <<Conv2d(3, v, 3, 1), BatchNorm2d(v), ReLU(TRUE)>>
          ELSE <<Conv2d(3, v, 3, 1), ReLU(TRUE)>>

\* VGG.make_layers, lines 55-59
VGGConvStage(inc, v, bn) ==
    IF bn THEN <<Conv2d(inc, v, 3, 1), BatchNorm2d(v), ReLU(TRUE)>>
          ELSE <<Conv2d(inc, v, 3, 1), ReLU(TRUE)>>

\* Variant: the rectifier is left out of a stage.
BCNNConvStage_NoReLU(inc, v, bn) ==
    IF bn THEN <<Conv2d(inc, v, 3, 1), BatchNorm2d(v)>>
          ELSE <<Conv2d(inc, v, 3, 1)>>

\* BCNN.make_layers, lines 149-154
BCNNConvStage(inc, v, bn) ==
    IF bn THEN <<Conv2d(inc, v, 3, 1), BatchNorm2d(v), ReLU(TRUE)>>
          ELSE <<Conv2d(inc, v, 3, 1), ReLU(TRUE)>>

\* lines 53 and 147
PoolStage == <<MaxPool2d(2, 2)>>

-----------------------------------------------------------------------------
(* make_layers: control shared by the two copies *)

MakeLayersRunning == pc \in {"vgg_make_layers", "bcnn_make_layers"}

\* where an exception raised inside make_layers surfaces
RaiseFromMakeLayers(e) ==
    /\ pc' = IF call.ret = "ctor" THEN "ctor_raised" ELSE "call_raised"
    /\ err' = e

-----------------------------------------------------------------------------
(* class VGG *)

\* Variant: the default config keeps the zoo's trailing 'M'.
VGGDefaultCfg_TrailingPool ==
    <<W(64), W(64), M, W(128), W(128), M, W(256), W(256), W(256), M,
      W(512), W(512), W(512), M, W(512), W(512), W(512), M>>

VGGDefaultCfg == <<W(64), W(64), M, W(128), W(128), M, W(256), W(256), W(256), M,
                   W(512), W(512), W(512), M, W(512), W(512), W(512)>>

\* Variant: the dispatch takes every dataset name for 'aoi'.
VGGRecognised_Any(ds) == TRUE

\* the dataset dispatch `if dataset == 'aoi'`
VGGRecognised(ds) == ds = "aoi"

\* VGG(dataset, pretrained, cfg, batch_norm): entry and dataset dispatch
VGG_New(ds, pre, c, bn) ==
    /\ pc = "idle"
    /\ cls' = "VGG"
    /\ args' = [dataset |-> ds, pretrained |-> pre, cfg |-> c,
                batch_norm |-> bn, num_classes |-> 0]
    /\ IF VGGRecognised(ds)
       THEN /\ attr' = [attr EXCEPT !.in_channels = Some(3)]
            /\ loc' = [loc EXCEPT !.num_classes = Some(6),
                                  !.feature_channels = Some(512 * 7 * 7)]
       ELSE UNCHANGED <<attr, loc>>
    /\ pc' = "vgg_backbone"
    /\ UNCHANGED <<mods, call, layers, i, inp, x, err>>

\* pretrained branch: the zoo's features without their last child
VGG_Pretrained ==
    /\ pc = "vgg_backbone"
    /\ args.pretrained
    /\ mods' = SetMod(SetMod(mods, "feature", ZooFeatures(args.batch_norm)),
                      "feature", DropLast(ZooFeatures(args.batch_norm), 1))
    /\ pc' = "vgg_classifier"
    /\ UNCHANGED <<cls, args, attr, loc, call, layers, i, inp, x, err>>

\* from-scratch branch: default cfg when none is given, then make_layers
VGG_Scratch ==
    /\ pc = "vgg_backbone"
    /\ ~args.pretrained
    /\ call' = [cfg |-> IF args.cfg.given THEN args.cfg.toks ELSE VGGDefaultCfg,
                bn |-> args.batch_norm, ret |-> "ctor", start |-> attr.in_channels]
    /\ layers' = <<>>
    /\ i' = 1
    /\ pc' = "vgg_make_layers"
    /\ UNCHANGED <<cls, args, attr, loc, mods, inp, x, err>>

\* one iteration of `for v in cfg`
VGG_MakeLayersStep ==
    /\ pc = "vgg_make_layers"
    /\ i <= Len(call.cfg)
    /\ LET v == call.cfg[i]
       IN IF IsM(v)
          THEN /\ layers' = layers \o PoolStage
               /\ i' = i + 1
               /\ UNCHANGED <<pc, attr, err>>
          ELSE IF ~IsSet(attr.in_channels)
          THEN /\ RaiseFromMakeLayers("AttributeError: in_channels")
               /\ UNCHANGED <<layers, i, attr>>
          ELSE /\ layers' = layers \o VGGConvStage(Val(attr.in_channels), v.w, call.bn)
               /\ attr' = [attr EXCEPT !.in_channels = Some(v.w)]
               /\ i' = i + 1
               /\ UNCHANGED <<pc, err>>
    /\ UNCHANGED <<cls, args, loc, mods, call, inp, x>>

\* `return nn.Sequential(*layers)`, and the caller's assignment to self.feature
VGG_MakeLayersReturn ==
    /\ pc = "vgg_make_layers"
    /\ i > Len(call.cfg)
    /\ IF call.ret = "ctor"
       THEN /\ mods' = SetMod(mods, "feature", layers)
            /\ pc' = "vgg_classifier"
       ELSE /\ pc' = "returned"
            /\ UNCHANGED mods
    /\ UNCHANGED <<cls, args, attr, loc, call, layers, i, inp, x, err>>

\* self.classifier = nn.Linear(feature_channels, num_classes)
VGG_Classifier ==
    /\ pc = "vgg_classifier"
    /\ IF ~IsSet(loc.feature_channels)
       THEN /\ pc' = "ctor_raised"
            /\ err' = "UnboundLocalError: feature_channels"
            /\ UNCHANGED mods
       ELSE IF ~IsSet(loc.num_classes)
       THEN /\ pc' = "ctor_raised"
            /\ err' = "UnboundLocalError: num_classes"
            /\ UNCHANGED mods
       ELSE /\ mods' = SetMod(mods, "classifier",
                              <<Linear(Val(loc.feature_channels), Val(loc.num_classes))>>)
            /\ pc' = IF args.pretrained THEN "ready" ELSE "vgg_init"
            /\ UNCHANGED err
    /\ UNCHANGED <<cls, args, attr, loc, call, layers, i, inp, x>>

\* Variant: the pass has no branch for fully connected layers.
VGGInitLayer_SkipLinear(m) ==
    CASE m.kind = "Conv2d" ->
            [m EXCEPT !.weight = "normal(0, sqrt(2/n))",
                      !.bias = IF m.bias # "none" THEN "zero" ELSE m.bias]
      [] m.kind = "BatchNorm2d" -> [m EXCEPT !.weight = "const_0.5", !.bias = "zero"]
      [] OTHER -> m

\* the body of the loop of _initialize_weights for one module
VGGInitLayer(m) ==
    CASE m.kind = "Conv2d" ->
            [m EXCEPT !.weight = "normal(0, sqrt(2/n))",
                      !.bias = IF m.bias # "none" THEN "zero" ELSE m.bias]
      [] m.kind = "BatchNorm2d" -> [m EXCEPT !.weight = "const_0.5", !.bias = "zero"]
      [] m.kind = "Linear" -> [m EXCEPT !.weight = "normal(0, 0.01)", !.bias = "zero"]
      [] OTHER -> m

\* self._initialize_weights(): for m in self.modules()
VGG_InitializeWeights ==
    /\ pc = "vgg_init"
    /\ mods' = [e \in DOMAIN mods |->
                  Entry(mods[e].name,
                        [k \in DOMAIN mods[e].layers |-> VGGInitLayer(mods[e].layers[k])])]
    /\ pc' = "ready"
    /\ UNCHANGED <<cls, args, attr, loc, call, layers, i, inp, x, err>>

\* net.make_layers(cfg, batch_norm) on a constructed instance (explored on the
\* instances that were built without a cfg argument)
VGG_CallMakeLayers(c, bn) ==
    /\ pc = "ready"
    /\ cls = "VGG"
    /\ ~args.cfg.given
    /\ call' = [cfg |-> c, bn |-> bn, ret |-> "direct", start |-> attr.in_channels]
    /\ layers' = <<>>
    /\ i' = 1
    /\ pc' = "vgg_make_layers"
    /\ UNCHANGED <<cls, args, attr, loc, mods, inp, x, err>>

\* net(x): x = self.feature(x)
VGG_Forward(n, c, h) ==
    /\ pc = "ready"
    /\ cls = "VGG"
    /\ inp' = <<n, c, h, h>>
    /\ LET r == ApplySeq(GetMod(mods, "feature"), <<n, c, h, h>>)
       IN IF r.ok THEN x' = r.s /\ pc' = "vgg_fwd_pool" /\ UNCHANGED err
          ELSE x' = <<>> /\ pc' = "fwd_raised" /\ err' = r.e
    /\ UNCHANGED <<cls, args, attr, loc, mods, call, layers, i>>

\* x = nn.AvgPool2d(2)(x); x = x.view(x.size(0), -1)
VGG_ForwardPool ==
    /\ pc = "vgg_fwd_pool"
    /\ LET r == AvgPool2d(2, x)
       IN IF r.ok THEN x' = ViewRows(r.s).s /\ pc' = "vgg_fwd_classifier" /\ UNCHANGED err
          ELSE x' = <<>> /\ pc' = "fwd_raised" /\ err' = r.e
    /\ UNCHANGED <<cls, args, attr, loc, mods, call, layers, i, inp>>

\* y = self.classifier(x); return y
VGG_ForwardClassifier ==
    /\ pc = "vgg_fwd_classifier"
    /\ LET r == ApplySeq(GetMod(mods, "classifier"), x)
       IN IF r.ok THEN x' = r.s /\ pc' = "done" /\ UNCHANGED err
          ELSE x' = <<>> /\ pc' = "fwd_raised" /\ err' = r.e
    /\ UNCHANGED <<cls, args, attr, loc, mods, call, layers, i, inp>>

VGGNext ==
    \/ \E ds \in Datasets, pre \in BOOLEAN, c \in CfgArgs, bn \in BOOLEAN :
          VGG_New(ds, pre, c, bn)
    \/ VGG_Pretrained
    \/ VGG_Scratch
    \/ VGG_MakeLayersStep
    \/ VGG_MakeLayersReturn
    \/ VGG_Classifier
    \/ VGG_InitializeWeights
    \/ \E c \in Cfgs, bn \in BOOLEAN : VGG_CallMakeLayers(c, bn)
    \/ \E n \in 1..MaxBatch, c \in InChans, h \in InSizes : VGG_Forward(n, c, h)
    \/ VGG_ForwardPool
    \/ VGG_ForwardClassifier

-----------------------------------------------------------------------------
(* class BCNN *)

BCNNDefaultCfg == <<W(64), W(64), M, W(128), W(128), M, W(256), W(256), W(256), M,
                    W(512), W(512), W(512), M, W(512), W(512), W(512), M>>

\* `in_channels = 3` at the top of BCNN.make_layers
BCNNInChannels == 3

\* Python cfg[-2]; the caller checks Len(c) >= 2
SecondToLast(c) == c[Len(c) - 1]

\* BCNN(num_classes, pretrained, cfg, bn): entry, out_channel and out_size
BCNN_New(nc, pre, c, bn) ==
    /\ pc = "idle"
    /\ cls' = "BCNN"
    /\ args' = [dataset |-> "None", pretrained |-> pre, cfg |-> c,
                batch_norm |-> bn, num_classes |-> nc]
    /\ attr' = [attr EXCEPT !.out_channel = Some(W(512)), !.out_size = Some(14 * 14)]
    /\ pc' = "bcnn_backbone"
    /\ UNCHANGED <<loc, mods, call, layers, i, inp, x, err>>

\* `if pretrained and bn and not cfg`
BCNN_PretrainedBN ==
    /\ pc = "bcnn_backbone"
    /\ args.pretrained /\ args.batch_norm /\ ~Truthy(args.cfg)
    /\ mods' = SetMod(mods, "features", ZooFeatures(TRUE))
    /\ pc' = "bcnn_trim"
    /\ UNCHANGED <<cls, args, attr, loc, call, layers, i, inp, x, err>>

\* `elif pretrained and not bn and not cfg`
BCNN_PretrainedPlain ==
    /\ pc = "bcnn_backbone"
    /\ ~(args.pretrained /\ args.batch_norm /\ ~Truthy(args.cfg))
    /\ args.pretrained /\ ~args.batch_norm /\ ~Truthy(args.cfg)
    /\ mods' = SetMod(mods, "features", ZooFeatures(FALSE))
    /\ pc' = "bcnn_trim"
    /\ UNCHANGED <<cls, args, attr, loc, call, layers, i, inp, x, err>>

\* `elif cfg`: make_layers(cfg, bn) is entered, in_channels = 3
BCNN_Cfg ==
    /\ pc = "bcnn_backbone"
    /\ ~(args.pretrained /\ ~Truthy(args.cfg))
    /\ Truthy(args.cfg)
    /\ call' = [cfg |-> args.cfg.toks, bn |-> args.batch_norm, ret |-> "ctor",
                start |-> Some(BCNNInChannels)]
    /\ layers' = <<>>
    /\ loc' = [loc EXCEPT !.in_channels = Some(BCNNInChannels)]
    /\ i' = 1
    /\ pc' = "bcnn_make_layers"
    /\ UNCHANGED <<cls, args, attr, mods, inp, x, err>>

\* `else`: the built-in VGG16 cfg, make_layers(cfg, bn) is entered
BCNN_Default ==
    /\ pc = "bcnn_backbone"
    /\ ~(args.pretrained /\ ~Truthy(args.cfg))
    /\ ~Truthy(args.cfg)
    /\ call' = [cfg |-> BCNNDefaultCfg, bn |-> args.batch_norm, ret |-> "ctor",
                start |-> Some(BCNNInChannels)]
    /\ layers' = <<>>
    /\ loc' = [loc EXCEPT !.in_channels = Some(BCNNInChannels)]
    /\ i' = 1
    /\ pc' = "bcnn_make_layers"
    /\ UNCHANGED <<cls, args, attr, mods, inp, x, err>>

\* one iteration of `for v in cfg`
BCNN_MakeLayersStep ==
    /\ pc = "bcnn_make_layers"
    /\ i <= Len(call.cfg)
    /\ LET v == call.cfg[i]
       IN IF IsM(v)
          THEN /\ layers' = layers \o PoolStage
               /\ UNCHANGED loc
          ELSE /\ layers' = layers \o BCNNConvStage(Val(loc.in_channels), v.w, call.bn)
               /\ loc' = [loc EXCEPT !.in_channels = Some(v.w)]
    /\ i' = i + 1
    /\ UNCHANGED <<pc, cls, args, attr, mods, call, inp, x, err>>

\* `return nn.Sequential(*layers)`; in the constructor the result becomes
\* self.features and self.out_channel = cfg[-2] follows
BCNN_MakeLayersReturn ==
    /\ pc = "bcnn_make_layers"
    /\ i > Len(call.cfg)
    /\ IF call.ret = "ctor"
       THEN /\ mods' = SetMod(mods, "features", layers)
            /\ IF Len(call.cfg) < 2
               THEN /\ pc' = "ctor_raised"
                    /\ err' = "IndexError: list index out of range"
                    /\ UNCHANGED attr
               ELSE /\ attr' = [attr EXCEPT !.out_channel = Some(SecondToLast(call.cfg))]
                    /\ pc' = "bcnn_trim"
                    /\ UNCHANGED err
       ELSE /\ pc' = "returned"
            /\ UNCHANGED <<mods, attr, err>>
    /\ UNCHANGED <<cls, args, loc, call, layers, i, inp, x>>

\* the children the slice [:-2] keeps
BCNNTrim(ls) == DropLast(ls, 2)

\* self.features = Sequential(*children[:-2]); self.relu5_3 = ReLU(inplace=False)
BCNN_Trim ==
    /\ pc = "bcnn_trim"
    /\ mods' = SetMod(SetMod(mods, "features", BCNNTrim(GetMod(mods, "features"))),
                      "relu5_3", <<ReLU(FALSE)>>)
    /\ pc' = "bcnn_classifier"
    /\ UNCHANGED <<cls, args, attr, loc, call, layers, i, inp, x, err>>

\* `if not pretrained` guarding self.apply(BCNN._initParameter)
BCNNInitWanted(a) == ~a.pretrained

\* self.classifier = Linear(self.out_channel**2, num_classes)
BCNN_Classifier ==
    /\ pc = "bcnn_classifier"
    /\ LET oc == Val(attr.out_channel)
       IN IF IsM(oc)
          THEN /\ pc' = "ctor_raised"
               /\ err' = "TypeError: unsupported operand type(s) for **"
               /\ UNCHANGED mods
          ELSE /\ mods' = SetMod(mods, "classifier", <<Linear(oc.w * oc.w, args.num_classes)>>)
               /\ pc' = IF BCNNInitWanted(args) THEN "bcnn_init" ELSE "ready"
               /\ UNCHANGED err
    /\ UNCHANGED <<cls, args, attr, loc, call, layers, i, inp, x>>

\* BCNN._initParameter(module)
BCNNInitParameter(m) ==
    CASE m.kind = "BatchNorm2d" -> [m EXCEPT !.weight = "const_1.0", !.bias = "zero"]
      [] m.kind = "Conv2d" ->
            [m EXCEPT !.weight = "kaiming_normal(fan_out, relu)",
                      !.bias = IF m.bias # "none" THEN "zero" ELSE m.bias]
      [] m.kind = "Linear" ->
            [m EXCEPT !.bias = IF m.bias # "none" THEN "zero" ELSE m.bias]
      [] OTHER -> m

\* self.apply(BCNN._initParameter): every sub-module, then self
BCNN_Apply ==
    /\ pc = "bcnn_init"
    /\ mods' = [e \in DOMAIN mods |->
                  Entry(mods[e].name,
                        [k \in DOMAIN mods[e].layers |-> BCNNInitParameter(mods[e].layers[k])])]
    /\ pc' = "ready"
    /\ UNCHANGED <<cls, args, attr, loc, call, layers, i, inp, x, err>>

\* net.make_layers(cfg, batch_norm) on a constructed instance (explored on the
\* instances that were built without a cfg argument)
BCNN_CallMakeLayers(c, bn) ==
    /\ pc = "ready"
    /\ cls = "BCNN"
    /\ ~args.cfg.given
    /\ call' = [cfg |-> c, bn |-> bn, ret |-> "direct", start |-> Some(BCNNInChannels)]
    /\ layers' = <<>>
    /\ loc' = [loc EXCEPT !.in_channels = Some(BCNNInChannels)]
    /\ i' = 1
    /\ pc' = "bcnn_make_layers"
    /\ UNCHANGED <<cls, args, attr, mods, inp, x, err>>

\* net(X): N = X.size()[0]; X = self.features(X); X = self.relu5_3(X)
BCNN_Forward(n, c, h) ==
    /\ pc = "ready"
    /\ cls = "BCNN"
    /\ inp' = <<n, c, h, h>>
    /\ LET r == ApplySeq(GetMod(mods, "features") \o GetMod(mods, "relu5_3"), <<n, c, h, h>>)
       IN IF r.ok THEN x' = r.s /\ pc' = "bcnn_fwd_bilinear" /\ UNCHANGED err
          ELSE x' = <<>> /\ pc' = "fwd_raised" /\ err' = r.e
    /\ UNCHANGED <<cls, args, attr, loc, mods, call, layers, i>>

\* reshape to (N, out_channel, out_size), bmm with the transpose, div,
\* reshape to (N, out_channel**2), signed square root, L2 normalisation
BCNNBilinear(n, oc, os, s) ==
    LET r1 == Reshape(s, <<n, oc, os>>)
    IN IF ~r1.ok THEN r1
       ELSE Reshape(BmmWithTranspose(r1.s).s, <<n, oc * oc>>)

BCNN_ForwardBilinear ==
    /\ pc = "bcnn_fwd_bilinear"
    /\ LET r == BCNNBilinear(inp[1], Val(attr.out_channel).w, Val(attr.out_size), x)
       IN IF r.ok THEN x' = r.s /\ pc' = "bcnn_fwd_classifier" /\ UNCHANGED err
          ELSE x' = <<>> /\ pc' = "fwd_raised" /\ err' = r.e
    /\ UNCHANGED <<cls, args, attr, loc, mods, call, layers, i, inp>>

\* X = self.classifier(X); return X
BCNN_ForwardClassifier ==
    /\ pc = "bcnn_fwd_classifier"
    /\ LET r == ApplySeq(GetMod(mods, "classifier"), x)
       IN IF r.ok THEN x' = r.s /\ pc' = "done" /\ UNCHANGED err
          ELSE x' = <<>> /\ pc' = "fwd_raised" /\ err' = r.e
    /\ UNCHANGED <<cls, args, attr, loc, mods, call, layers, i, inp>>

BCNNNext ==
    \/ \E nc \in NumClasses, pre \in BOOLEAN, c \in CfgArgs, bn \in BOOLEAN :
          BCNN_New(nc, pre, c, bn)
    \/ BCNN_PretrainedBN
    \/ BCNN_PretrainedPlain
    \/ BCNN_Cfg
    \/ BCNN_Default
    \/ BCNN_MakeLayersStep
    \/ BCNN_MakeLayersReturn
    \/ BCNN_Trim
    \/ BCNN_Classifier
    \/ BCNN_Apply
    \/ \E c \in Cfgs, bn \in BOOLEAN : BCNN_CallMakeLayers(c, bn)
    \/ \E n \in 1..MaxBatch, c \in InChans, h \in InSizes : BCNN_Forward(n, c, h)
    \/ BCNN_ForwardBilinear
    \/ BCNN_ForwardClassifier

-----------------------------------------------------------------------------
(* class LeNet5 *)

\* the dataset dispatch `if dataset == 'aoi'`
LeNet5Recognised(ds) == ds = "aoi"

LeNet5Conv1(inc) == Conv2d(inc, 6, 5, 2)
\* Variant: conv2 padded like conv1.
LeNet5Conv2_Padded == Conv2d(6, 16, 5, 2)
LeNet5Conv2 == Conv2d(6, 16, 5, 0)
LeNet5Conv3 == Conv2d(16, 120, 5, 0)
\* nn.MaxPool2d(kernel_size=2): the stride defaults to the kernel size
LeNet5Pool == MaxPool2d(2, 2)

\* LeNet5(dataset): entry and dataset dispatch
LeNet5_New(ds) ==
    /\ pc = "idle"
    /\ cls' = "LeNet5"
    /\ args' = [NoArgs EXCEPT !.dataset = ds]
    /\ IF LeNet5Recognised(ds)
       THEN /\ loc' = [loc EXCEPT !.in_channels = Some(1), !.num_classes = Some(6)]
            /\ attr' = [attr EXCEPT !.feature_channels = Some(120 * 50 * 50)]
       ELSE UNCHANGED <<attr, loc>>
    /\ pc' = "lenet_conv1"
    /\ UNCHANGED <<mods, call, layers, i, inp, x, err>>

\* self.conv1 = nn.Conv2d(in_channels=in_channels, ...)
LeNet5_Conv1 ==
    /\ pc = "lenet_conv1"
    /\ IF ~IsSet(loc.in_channels)
       THEN /\ pc' = "ctor_raised"
            /\ err' = "UnboundLocalError: in_channels"
            /\ UNCHANGED mods
       ELSE /\ mods' = SetMod(mods, "conv1", <<LeNet5Conv1(Val(loc.in_channels))>>)
            /\ pc' = "lenet_stages"
            /\ UNCHANGED err
    /\ UNCHANGED <<cls, args, attr, loc, call, layers, i, inp, x>>

\* max_pool_1, conv2, max_pool_2, conv3
LeNet5_Stages ==
    /\ pc = "lenet_stages"
    /\ mods' = SetMod(SetMod(SetMod(SetMod(mods,
                   "max_pool_1", <<LeNet5Pool>>),
                   "conv2", <<LeNet5Conv2>>),
                   "max_pool_2", <<LeNet5Pool>>),
                   "conv3", <<LeNet5Conv3>>)
    /\ pc' = "lenet_fc"
    /\ UNCHANGED <<cls, args, attr, loc, call, layers, i, inp, x, err>>

\* self.fc1 = nn.Linear(self.feature_channels, 84); self.fc2 = nn.Linear(84, num_classes)
LeNet5_Fc ==
    /\ pc = "lenet_fc"
    /\ IF ~IsSet(attr.feature_channels)
       THEN /\ pc' = "ctor_raised"
            /\ err' = "AttributeError: feature_channels"
            /\ UNCHANGED mods
       ELSE IF ~IsSet(loc.num_classes)
       THEN /\ pc' = "ctor_raised"
            /\ err' = "UnboundLocalError: num_classes"
            /\ mods' = SetMod(mods, "fc1", <<Linear(Val(attr.feature_channels), 84)>>)
       ELSE /\ mods' = SetMod(SetMod(mods,
                           "fc1", <<Linear(Val(attr.feature_channels), 84)>>),
                           "fc2", <<Linear(84, Val(loc.num_classes))>>)
            /\ pc' = "ready"
            /\ UNCHANGED err
    /\ UNCHANGED <<cls, args, attr, loc, call, layers, i, inp, x>>

\* net(x): conv1, relu(max_pool_1), conv2, relu(max_pool_2), conv3
LeNet5_Forward(n, c, h) ==
    /\ pc = "ready"
    /\ cls = "LeNet5"
    /\ inp' = <<n, c, h, h>>
    /\ LET r == ApplySeq(GetMod(mods, "conv1") \o GetMod(mods, "max_pool_1") \o <<ReLU(FALSE)>>
                         \o GetMod(mods, "conv2") \o GetMod(mods, "max_pool_2") \o <<ReLU(FALSE)>>
                         \o GetMod(mods, "conv3"), <<n, c, h, h>>)
       IN IF r.ok THEN x' = r.s /\ pc' = "lenet_fwd_view" /\ UNCHANGED err
          ELSE x' = <<>> /\ pc' = "fwd_raised" /\ err' = r.e
    /\ UNCHANGED <<cls, args, attr, loc, mods, call, layers, i>>

\* x = x.view(-1, self.feature_channels)
LeNet5_ForwardView ==
    /\ pc = "lenet_fwd_view"
    /\ LET r == ViewCols(x, Val(attr.feature_channels))
       IN IF r.ok THEN x' = r.s /\ pc' = "lenet_fwd_fc" /\ UNCHANGED err
          ELSE x' = <<>> /\ pc' = "fwd_raised" /\ err' = r.e
    /\ UNCHANGED <<cls, args, attr, loc, mods, call, layers, i, inp>>

\* x = F.relu(self.fc1(x)); x = self.fc2(x); return x
LeNet5_ForwardFc ==
    /\ pc = "lenet_fwd_fc"
    /\ LET r == ApplySeq(GetMod(mods, "fc1") \o <<ReLU(FALSE)>> \o GetMod(mods, "fc2"), x)
       IN IF r.ok THEN x' = r.s /\ pc' = "done" /\ UNCHANGED err
          ELSE x' = <<>> /\ pc' = "fwd_raised" /\ err' = r.e
    /\ UNCHANGED <<cls, args, attr, loc, mods, call, layers, i, inp>>

LeNet5Next ==
    \/ \E ds \in Datasets : LeNet5_New(ds)
    \/ LeNet5_Conv1
    \/ LeNet5_Stages
    \/ LeNet5_Fc
    \/ \E n \in 1..MaxBatch, c \in InChans, h \in InSizes : LeNet5_Forward(n, c, h)
    \/ LeNet5_ForwardView
    \/ LeNet5_ForwardFc

-----------------------------------------------------------------------------

Next == VGGNext \/ BCNNNext \/ LeNet5Next

Spec == Init /\ [][Next]_vars

-----------------------------------------------------------------------------
(* Vocabulary of the properties *)

NumW(c) == Cardinality({k \in DOMAIN c : ~IsM(c[k])})
NumM(c) == Cardinality({k \in DOMAIN c : IsM(c[k])})
HasWidth(c) == \E k \in DOMAIN c : ~IsM(c[k])
LastWidthIndex(c) == CHOOSE k \in DOMAIN c : ~IsM(c[k]) /\ \A m \in DOMAIN c : m > k => IsM(c[m])
LastWidth(c) == c[LastWidthIndex(c)].w

\* make_layers has returned its stack (it is still held in `layers`)
MakeLayersDone == call.ret # "" /\ ~MakeLayersRunning /\ i > Len(call.cfg)

Registered(name) == \E e \in DOMAIN mods : mods[e].name = name

Kinds(ls) == [k \in DOMAIN ls |-> ls[k].kind]

\* the batch handed to forward has shape n x c x h x h
InputIs(c, h) == Len(inp) = 4 /\ inp[2] = c /\ inp[3] = h /\ inp[4] = h

-----------------------------------------------------------------------------
(* C1 *)

\* C1: a VGG built for 'aoi', from the pretrained backbone or from the default
\* config, with or without batch norm, maps every N x 3 x 224 x 224 batch to
\* N x 6 without raising; the pooled feature map flattens to 512*7*7 values
\* per sample, the input width of the classifier.
C1_VGGOutputShape ==
    (cls = "VGG" /\ args.dataset = "aoi" /\ (args.pretrained \/ ~args.cfg.given)
       /\ InputIs(3, 224))
    => /\ pc # "fwd_raised"
       /\ pc = "vgg_fwd_classifier" =>
            /\ x = <<inp[1], 512 * 7 * 7>>
            /\ GetMod(mods, "classifier")[1].inc = 512 * 7 * 7
       /\ pc = "done" => x = <<inp[1], 6>>

C1_Witness ==
    /\ cls = "VGG" /\ pc = "done"
    /\ ~args.pretrained /\ args.batch_norm /\ ~args.cfg.given
    /\ inp = <<2, 3, 224, 224>>
    /\ x = <<2, 6>>

-----------------------------------------------------------------------------
(* C2 *)

\* C2: a LeNet5 built for 'aoi' maps every N x 1 x 224 x 224 batch to N x 6
\* without raising; conv3 leaves 120 x 50 x 50 values per sample, so the view
\* to rows of 120*50*50 keeps N rows.
C2_LeNet5OutputShape ==
    (cls = "LeNet5" /\ InputIs(1, 224))
    => /\ pc # "fwd_raised"
       /\ pc = "lenet_fwd_view" => x = <<inp[1], 120, 50, 50>>
       /\ pc = "lenet_fwd_fc" => x = <<inp[1], 120 * 50 * 50>>
       /\ pc = "done" => x = <<inp[1], 6>>

C2_Witness ==
    /\ cls = "LeNet5" /\ pc = "done"
    /\ inp = <<2, 1, 224, 224>>
    /\ x = <<2, 6>>

-----------------------------------------------------------------------------
(* C3 *)

\* C3: a BCNN (pretrained or default backbone) completes forward on a batch of
\* the documented shape N x 3 x 448 x 448: the bilinear vector has length
\* out_channel^2 per sample and the result has N rows of num_classes scores.
C3_BCNNForward448 ==
    (cls = "BCNN" /\ ~Truthy(args.cfg) /\ InputIs(3, 448))
    => /\ pc # "fwd_raised"
       /\ pc = "bcnn_fwd_classifier" =>
            x = <<inp[1], Val(attr.out_channel).w * Val(attr.out_channel).w>>
       /\ pc = "done" => x = <<inp[1], args.num_classes>>

-----------------------------------------------------------------------------
(* C4 *)

\* C4: once the constructor has built the backbone from a config holding at
\* least one channel width, the reported output-channel count (self.in_channels
\* in VGG, self.out_channel in BCNN) is the last channel width of the config.
C4_OutputChannelsIsLastWidth ==
    /\ (cls = "VGG" /\ pc = "vgg_classifier" /\ call.ret = "ctor" /\ HasWidth(call.cfg))
       => attr.in_channels = Some(LastWidth(call.cfg))
    /\ (cls = "BCNN" /\ pc = "bcnn_trim" /\ call.ret = "ctor" /\ HasWidth(call.cfg))
       => attr.out_channel = Some(W(LastWidth(call.cfg)))

-----------------------------------------------------------------------------
(* C5 *)

\* C5 as stated: the returned stack has 1 x (#widths) + (#markers) layers
\* without normalisation and 2 x (#widths) + (#markers) with it.
C5_StackLengthAsStated ==
    MakeLayersDone
    => Len(layers) = (IF call.bn THEN 2 ELSE 1) * NumW(call.cfg) + NumM(call.cfg)

\* C5 amended: the returned stack has 2 x (#widths) + (#markers) layers
\* without normalisation and 3 x (#widths) + (#markers) with it (each width
\* also appends its rectifier); the empty config returns the empty stack
\* without raising.
C5_StackLength ==
    /\ MakeLayersDone
       => Len(layers) = (IF call.bn THEN 3 ELSE 2) * NumW(call.cfg) + NumM(call.cfg)
    /\ (call.ret # "" /\ call.cfg = <<>>)
       => /\ layers = <<>>
          /\ MakeLayersRunning \/ MakeLayersDone
          /\ pc # "call_raised"

C5_Witness ==
    /\ cls = "BCNN" /\ pc = "returned"
    /\ call.bn /\ NumW(call.cfg) = 2 /\ NumM(call.cfg) = 1
    /\ Len(layers) = 7

-----------------------------------------------------------------------------
(* C6 *)

\* The stated rule: tokens left to right; 'M' appends one 2x2 stride-2
\* max-pool; a width w appends a 3x3 padding-1 biased convolution from the
\* running count to w, a normalisation over w iff requested, a ReLU, and w
\* becomes the running count.
RECURSIVE RuleStack(_, _, _)
RuleStack(toks, running, norm) ==
    IF toks = <<>> THEN <<>>
    ELSE IF IsM(Head(toks))
    THEN <<MaxPool2d(2, 2)>> \o RuleStack(Tail(toks), running, norm)
    ELSE <<Conv2d(running, Head(toks).w, 3, 1)>>
         \o (IF norm THEN <<BatchNorm2d(Head(toks).w)>> ELSE <<>>)
         \o <<ReLU(TRUE)>>
         \o RuleStack(Tail(toks), Head(toks).w, norm)

IsConv(l) == l.kind = "Conv2d"
Convs(ls) == SelectSeq(ls, IsConv)

\* the count a call started from (0 stands for "not bound": no width was read)
StartCount == IF IsSet(call.start) THEN Val(call.start) ELSE 0

\* the running count of the call in progress
RunningCount == IF cls = "VGG" THEN attr.in_channels ELSE loc.in_channels

\* C6: at every point of make_layers (VGG and BCNN) the stack built so far is
\* the stated rule applied to the tokens read so far, starting from 3 in BCNN
\* and from self.in_channels (3 for 'aoi') in VGG; the running count is the
\* last width read (the starting count if none); every convolution takes as
\* many channels as the convolution before it produces (the starting count for
\* the first), has a bias, and the operations stand in config order.
C6_MakeLayersRule ==
    (call.ret # "" /\ (MakeLayersRunning \/ MakeLayersDone))
    => LET read == SubSeq(call.cfg, 1, i - 1)
           cs == Convs(layers)
       IN /\ cls = "BCNN" => call.start = Some(3)
          /\ (cls = "VGG" /\ call.ret = "ctor" /\ args.dataset = "aoi") => call.start = Some(3)
          /\ layers = RuleStack(read, StartCount, call.bn)
          /\ RunningCount = IF HasWidth(read) THEN Some(LastWidth(read)) ELSE call.start
          /\ \A k \in DOMAIN cs :
                /\ cs[k].inc = IF k = 1 THEN StartCount ELSE cs[k - 1].outc
                /\ cs[k].bias # "none"
          /\ Len(cs) = NumW(read)

C6_Witness ==
    /\ cls = "VGG" /\ pc = "returned"
    /\ call.start = Some(512)
    /\ call.cfg = <<W(64), M, W(128)>>
    /\ ~call.bn
    /\ layers = <<Conv2d(512, 64, 3, 1), ReLU(TRUE), MaxPool2d(2, 2),
                  Conv2d(64, 128, 3, 1), ReLU(TRUE)>>
    /\ attr.in_channels = Some(128)

-----------------------------------------------------------------------------
(* C7 *)

\* the initialisation pass of the constructor has run
InitRan ==
    /\ cls \in {"VGG", "BCNN"}
    /\ ~args.pretrained
    /\ Registered("classifier")
    /\ pc \notin {"vgg_init", "bcnn_init"}

\* C7: once the initialisation pass has run on a non-pretrained model, every
\* convolution, normalisation and fully connected layer of the model has a
\* zero bias and every normalisation layer has scale 0.5 (VGG) or 1.0 (BCNN);
\* the pass leaves out no layer of these kinds.
C7_InitZeroBias ==
    InitRan
    => LET ms == Modules(mods)
       IN \A k \in DOMAIN ms :
             /\ HasParams(ms[k]) => ms[k].bias = "zero"
             /\ ms[k].kind = "BatchNorm2d"
                => ms[k].weight = IF cls = "VGG" THEN "const_0.5" ELSE "const_1.0"

C7_Witness ==
    /\ InitRan /\ cls = "VGG" /\ pc = "ready" /\ args.batch_norm
    /\ \E k \in DOMAIN Modules(mods) : Modules(mods)[k].kind = "BatchNorm2d"
    /\ \E k \in DOMAIN Modules(mods) : Modules(mods)[k].kind = "Conv2d"
    /\ \E k \in DOMAIN Modules(mods) : Modules(mods)[k].kind = "Linear"

-----------------------------------------------------------------------------
(* C8 *)

CtorPositions == {"vgg_backbone", "vgg_make_layers", "vgg_classifier",
                  "lenet_conv1", "ctor_raised"}

\* the constructor steps a rejected dataset name can still reach
CtorStep == \/ VGG_Pretrained \/ VGG_Scratch \/ VGG_MakeLayersStep
            \/ VGG_MakeLayersReturn \/ VGG_Classifier \/ LeNet5_Conv1

UndefinedValueErrors == {"AttributeError: in_channels",
                         "UnboundLocalError: feature_channels",
                         "UnboundLocalError: in_channels"}

\* C8: VGG or LeNet5 with a dataset name other than 'aoi': the dispatch
\* raises nothing and binds none of the dataset values; the constructor never
\* completes (no instance is ever ready) and can stop only by raising an
\* undefined-value error, which it does at the first use of such a value: in
\* VGG at the first channel width make_layers reads, otherwise at the
\* classifier; in LeNet5 at conv1.
C8_UnknownDatasetFails ==
    (cls \in {"VGG", "LeNet5"} /\ args.dataset # "aoi")
    => /\ pc \in CtorPositions
       /\ attr.in_channels = Unset /\ attr.feature_channels = Unset
       /\ loc = NoLoc
       /\ pc # "ctor_raised" => (err = "" /\ ENABLED CtorStep)
       /\ pc = "ctor_raised" =>
            /\ err \in UndefinedValueErrors
            /\ ~Registered("classifier") /\ ~Registered("conv1")
            /\ cls = "LeNet5" => err = "UnboundLocalError: in_channels"
            /\ (cls = "VGG" /\ ~args.pretrained /\ HasWidth(call.cfg))
               => /\ err = "AttributeError: in_channels"
                  /\ ~IsM(call.cfg[i])
                  /\ \A k \in 1..(i - 1) : IsM(call.cfg[k])
            /\ (cls = "VGG" /\ (args.pretrained \/ ~HasWidth(call.cfg)))
               => /\ err = "UnboundLocalError: feature_channels"
                  /\ Registered("feature")

C8_Witness ==
    /\ cls = "VGG" /\ args.dataset = "mnist" /\ ~args.pretrained
    /\ pc = "ctor_raised"
    /\ err = "AttributeError: in_channels"
    /\ call.cfg = <<M, W(64)>>
    /\ i = 2

-----------------------------------------------------------------------------
(* C9 *)

\* C9: for every backbone BCNN builds (from the zoo, or from a config with at
\* least one channel width), the two children the slice [:-2] drops
\* are a ReLU followed by a max-pool, so that with relu5_3 appended only the
\* final pooling stage is gone.
C9_TrimDropsReluAndPool ==
    (cls = "BCNN" /\ pc = "bcnn_trim" /\ (call.ret = "ctor" => HasWidth(call.cfg)))
    => LET f == GetMod(mods, "features")
       IN /\ Kinds(LastN(f, 2)) = <<"ReLU", "MaxPool2d">>
          /\ BCNNTrim(f) \o LastN(f, 2) = f

-----------------------------------------------------------------------------
(* C10 *)

FromZoo(ls) == \E k \in DOMAIN ls : ls[k].weight = "pretrained"

InitApplied(ls) ==
    \A k \in DOMAIN ls :
        /\ ls[k].kind = "Conv2d"
           => ls[k].weight = "kaiming_normal(fan_out, relu)" /\ ls[k].bias = "zero"
        /\ ls[k].kind = "BatchNorm2d" => ls[k].weight = "const_1.0" /\ ls[k].bias = "zero"
        /\ ls[k].kind = "Linear" => ls[k].bias = "zero"

ZooUntouched(ls) ==
    \A k \in DOMAIN ls :
        HasParams(ls[k]) => ls[k].weight = "pretrained" /\ ls[k].bias = "pretrained"

\* C10: in a constructed BCNN the backbone comes from exactly one source, and
\* the initialisation policy went to exactly the models built by make_layers:
\* such a model has _initParameter applied to all its modules, and a model
\* with a zoo backbone keeps the loaded backbone weights.
C10_InitPolicy ==
    (cls = "BCNN" /\ pc = "ready")
    => /\ FromZoo(GetMod(mods, "features")) => ZooUntouched(GetMod(mods, "features"))
       /\ ~FromZoo(GetMod(mods, "features")) => InitApplied(Modules(mods))

=============================================================================
